---- MODULE Spec2Model ----
(***************************************************************************)
(* Model of src/app.js: the observer sessions served by the WebSocket      *)
(* server (wss.on('connection'), lines 154-184).                           *)
(*                                                                         *)
(* Every connection runs one async handler.  The handler awaits an initial *)
(* getSystemInfo(), sends it, creates a 1000 ms interval whose async       *)
(* callback samples and sends again, and only then registers the 'close'   *)
(* and 'error' handlers that clear the interval.  An await is a point      *)
(* where the event loop runs other callbacks, so every await splits a      *)
(* handler into two actions.                                               *)
(***************************************************************************)
EXTENDS Integers, Sequences, FiniteSets

\* ---- bounds ----
MaxTicks == 2               \* interval firings followed per session
MaxRequests == 2            \* control requests followed
MaxMantissa == 3            \* byte counts m * 1024^e tried for m up to this
MaxUptime == 130            \* uptimes are tried for every second up to this
MaxIfaces == 2              \* network interfaces of the host
MaxAddrs == 2               \* addresses of one network interface
MaxEntries == 3             \* addresses of all network interfaces together
MaxCounter == 3             \* a CPU time-in-state counter of the small cases
MaxUnits == 12              \* total memory or disk size of the small cases

\* Two observer connections, enough to observe one session from another.
Sessions == {1, 2}

VARIABLES
    pc,          \* position of the connection handler of each session
    readyState,  \* ws.readyState of each session's channel
    timer,       \* the `interval` handle of each session
    ticks,       \* number of interval firings of each session so far
    inflight,    \* ticks of a session whose getSystemInfo() is still awaited
    sent,        \* ws.send calls of each session, in call order
    detachCalls, \* runs of the 'close'/'error' handlers of each session
    freed,       \* timers actually released by clearInterval, per session
    uncaught,    \* errors that left a handler of a session
    cmds,        \* the control requests (POST /system/restart, /shutdown)
    server,      \* the HTTP server and the process after a signal
    fnIn,        \* the function and argument of a call of a pure function
    fnOut        \* the result of that call

sessionVars == <<pc, readyState, timer, ticks, inflight, sent,
                 detachCalls, freed, uncaught>>

vars == <<pc, readyState, timer, ticks, inflight, sent,
          detachCalls, freed, uncaught, cmds, server, fnIn, fnOut>>

\* ---- the pieces of the handlers ----

\* getSystemInfo() (lines 128-151) either resolves with a snapshot or rejects
\* (an os.* call fails); a disk failure is absorbed by getDiskInfo.
SampleOutcomes == {"ok", "throws"}

\* ws.send(JSON.stringify(specs)) (lines 159, 168): on an OPEN channel the
\* snapshot is written, on any other channel the send fails.
wsSend(rs) == IF rs = "OPEN" THEN "delivered" ELSE "failed"

\* How a failed send shows in the caller depends on the installed ws package
\* (line 5): the call throws, or the data is discarded without a throw.
SendAfterClose == {"throws", "discards"}

\* No interval exists while the initial delivery is pending (lines 157-162
\* come before the setInterval of line 164).
timerArmedAtConnect == "armed"
timerBeforeInitial == "none"

\* setInterval(..., 1000) (line 164).
setInterval == "armed"

\* The tick's guard, line 166.
tickGuard(rs) == rs = "OPEN"

\* catch (error) { console.error(...) } of the tick (lines 170-172): the
\* error is logged, the interval handle is left as it is and nothing is
\* thrown again.
tickCatchCancels(t) == [timer |-> "cleared", rethrown |-> 0]
tickCatch(t) == [timer |-> t, rethrown |-> 0]

\* clearInterval(interval) (lines 176, 182): the handle ends cleared, and a
\* timer is released only when one was armed.
clearIntervalEveryCall(t) == [state |-> "cleared", freed |-> 1]
clearInterval(t) ==
    [state |-> "cleared", freed |-> IF t = "armed" THEN 1 ELSE 0]

\* Which sessions a handler's clearInterval reaches: `interval` is a const of
\* the connection's own closure (line 164).
intervalSharedByAll(s) == Sessions
intervalScope(s) == {s}

\* One ws.send call as recorded in `sent`.
SendRecord(s, src, res) ==
    [src |-> src, det |-> detachCalls[s] > 0, res |-> res]

\* ---- initial state: the server listens, nobody is connected ----
InitSessions ==
    /\ pc = [s \in Sessions |-> "idle"]
    /\ readyState = [s \in Sessions |-> "NONE"]
    /\ timer = [s \in Sessions |-> "none"]
    /\ ticks = [s \in Sessions |-> 0]
    /\ inflight = [s \in Sessions |-> {}]
    /\ sent = [s \in Sessions |-> <<>>]
    /\ detachCalls = [s \in Sessions |-> 0]
    /\ freed = [s \in Sessions |-> 0]
    /\ uncaught = [s \in Sessions |-> 0]

\* ---- actions ----

\* wss 'connection' (lines 154-158): the handler starts on an OPEN channel
\* and suspends at `await getSystemInfo()`.
Connect(s) ==
    /\ pc[s] = "idle"
    /\ pc' = [pc EXCEPT ![s] = "initial"]
    /\ readyState' = [readyState EXCEPT ![s] = "OPEN"]
    /\ timer' = [timer EXCEPT ![s] = timerBeforeInitial]
    /\ UNCHANGED <<ticks, inflight, sent, detachCalls, freed,
                   uncaught>>

\* Lines 158-183 after the await: send the initial snapshot (or catch the
\* failure), create the interval, register the 'close'/'error' handlers.
InitialResume(s) ==
    /\ pc[s] = "initial"
    /\ \E o \in SampleOutcomes :
         \/ /\ o = "ok"
            /\ sent' = [sent EXCEPT
                           ![s] = Append(@, SendRecord(s, 0,
                                                wsSend(readyState[s])))]
         \/ /\ o = "throws"
            /\ sent' = sent
    /\ timer' = [timer EXCEPT ![s] = setInterval]
    /\ pc' = [pc EXCEPT ![s] = "running"]
    /\ UNCHANGED <<readyState, ticks, inflight, detachCalls, freed,
                   uncaught>>

\* The interval fires (lines 164-167): when the channel is OPEN the callback
\* starts a sample and suspends at the await, otherwise it returns.
Tick(s) ==
    /\ timer[s] = "armed"
    /\ ticks[s] < MaxTicks
    /\ ticks' = [ticks EXCEPT ![s] = @ + 1]
    /\ inflight' = [inflight EXCEPT
                       ![s] = IF tickGuard(readyState[s])
                              THEN @ \cup {ticks[s] + 1} ELSE @]
    /\ UNCHANGED <<pc, readyState, timer, sent, detachCalls, freed,
                   uncaught>>

\* Lines 167-172 after the await of tick n: send the snapshot, or catch the
\* failure of the sample or of the send.
TickResume(s, n) ==
    /\ n \in inflight[s]
    /\ inflight' = [inflight EXCEPT ![s] = @ \ {n}]
    /\ \E o \in SampleOutcomes, b \in SendAfterClose :
         LET r == wsSend(readyState[s])
             failed == o = "throws" \/ (r = "failed" /\ b = "throws")
             c == tickCatch(timer[s])
         IN  /\ sent' = [sent EXCEPT
                            ![s] = IF o = "ok"
                                   THEN Append(@, SendRecord(s, n, r))
                                   ELSE @]
             /\ timer' = [timer EXCEPT ![s] = IF failed THEN c.timer ELSE @]
             /\ uncaught' = [uncaught EXCEPT
                                ![s] = IF failed THEN @ + c.rethrown ELSE @]
    /\ UNCHANGED <<pc, readyState, ticks, detachCalls, freed>>

\* The closing handshake starts on a channel (the peer's close frame
\* arrives): readyState leaves OPEN, no event has been emitted yet.
BeginClose(s) ==
    /\ readyState[s] = "OPEN"
    /\ readyState' = [readyState EXCEPT ![s] = "CLOSING"]
    /\ UNCHANGED <<pc, timer, ticks, inflight, sent, detachCalls,
                   freed, uncaught>>

\* What a run of the 'close' or 'error' handler of session s does to the
\* timers (lines 175-183).
Detach(s) ==
    /\ timer' = [x \in Sessions |->
                    IF x \in intervalScope(s)
                    THEN clearInterval(timer[x]).state ELSE timer[x]]
    /\ freed' = [x \in Sessions |->
                    IF x \in intervalScope(s)
                    THEN freed[x] + clearInterval(timer[x]).freed
                    ELSE freed[x]]
    /\ detachCalls' = [detachCalls EXCEPT ![s] = @ + 1]

\* ws emits 'error' (lines 180-183), once and before any 'close': the channel
\* starts closing and the registered handler clears the interval.  The event
\* is followed from the registration of the handler on.
ErrorEvent(s) ==
    /\ pc[s] = "running"
    /\ readyState[s] \in {"OPEN", "CLOSING"}
    /\ detachCalls[s] = 0
    /\ readyState' = [readyState EXCEPT ![s] = "CLOSING"]
    /\ Detach(s)
    /\ UNCHANGED <<pc, ticks, inflight, sent, uncaught>>

\* ws emits 'close' (lines 175-178): the channel is CLOSED; the handler runs
\* when it has been registered, otherwise the event has no listener.
CloseEvent(s) ==
    /\ readyState[s] \in {"OPEN", "CLOSING"}
    /\ readyState' = [readyState EXCEPT ![s] = "CLOSED"]
    /\ IF pc[s] = "running"
       THEN Detach(s)
       ELSE UNCHANGED <<timer, freed, detachCalls>>
    /\ UNCHANGED <<pc, ticks, inflight, sent, uncaught>>

\* ---- the control endpoints (lines 187-207) ----

Requests == 1..MaxRequests

\* The two endpoints.
Kinds == {"restart", "shutdown"}

\* How the command run by exec ends: it succeeds, or it fails for want of
\* privilege, because the command is not found, or with a non-zero exit.
ExecOutcomes == {"ok", "EACCES", "ENOENT", "exit1"}

\* The command line each endpoint hands to exec (lines 188, 199).
Command(k) ==
    IF k = "restart" THEN "sudo shutdown -r now" ELSE "sudo shutdown -h now"

\* The exec callback (lines 188-195, 199-206): status 500 and a fixed error
\* text when exec reports an error, status 200 and a message otherwise.
RespondAlwaysOk(k, o) ==
    [status |-> 200, key |-> "message",
     text |-> IF k = "restart" THEN "System is restarting"
              ELSE "System is shutting down"]
Respond(k, o) ==
    IF o # "ok"
    THEN [status |-> 500, key |-> "error",
          text |-> IF k = "restart" THEN "Failed to restart system"
                   ELSE "Failed to shutdown system"]
    ELSE [status |-> 200, key |-> "message",
          text |-> IF k = "restart" THEN "System is restarting"
                   ELSE "System is shutting down"]

\* exec (line 4, child_process) is asynchronous: it returns at once and the
\* event loop stays free for other callbacks while the command is pending.
execSyncBlocksLoop(c) == \E r \in Requests : c[r].st = "pending"
execBlocksLoop(c) == FALSE

NoRequest ==
    [st |-> "none", kind |-> "none", execs |-> <<>>, outcome |-> "none",
     resp |-> <<>>]

InitControl == cmds = [r \in Requests |-> NoRequest]

\* POST /system/restart or /system/shutdown arrives (lines 187-188,
\* 198-199): the route handler calls exec once and returns.
PostControl(r, k) ==
    /\ cmds[r].st = "none"
    /\ cmds' = [cmds EXCEPT ![r] = [@ EXCEPT !.st = "pending", !.kind = k,
                                     !.execs = Append(@, Command(k))]]
    /\ UNCHANGED <<sessionVars, server, fnIn, fnOut>>

\* The command ends and exec calls the callback (lines 188-195, 199-206),
\* which writes the response.
ExecDone(r, o) ==
    /\ cmds[r].st = "pending"
    /\ cmds' = [cmds EXCEPT
                   ![r] = [@ EXCEPT !.st = "done", !.outcome = o,
                            !.resp = Append(@, Respond(cmds[r].kind, o))]]
    /\ UNCHANGED <<sessionVars, server, fnIn, fnOut>>

\* ---- the signal handlers (lines 580-594) ----

\* When the callback of server.close runs (lines 582-585, 590-593): the
\* server has stopped listening and every connection, the upgraded
\* WebSocket connections included, has ended.
exitOnSignal(rs) == TRUE
closeComplete(rs) == \A s \in Sessions : rs[s] \in {"NONE", "CLOSED"}

InitServer == server = "listening"

\* SIGTERM or SIGINT (lines 580-582, 588-590): the handler logs and calls
\* server.close; the server stops accepting connections.
Signal ==
    /\ server \in {"listening", "closing"}
    /\ server' = "closing"
    /\ UNCHANGED <<sessionVars, cmds, fnIn, fnOut>>

\* The callback of server.close (lines 582-585): process.exit(0).
ServerClosed ==
    /\ server = "closing"
    /\ closeComplete(readyState)
    /\ server' = "exited"
    /\ UNCHANGED <<sessionVars, cmds, fnIn, fnOut>>

\* ---- the utility functions (lines 16-36) ----

\* Number.prototype.toFixed(f) of the exact value num / den >= 0, in units of
\* 10^-f (scale = 10^f): the nearest such number, the larger of two that are
\* equally near.
toFixed(num, den, scale) == (2 * num * scale + den) \div (2 * den)

\* units (line 17), indexed from 0 as in the code.
units == <<"B", "KB", "MB", "GB", "TB">>

\* The while loop of formatBytes (lines 21-24) on size = m * 1024^e / den:
\* while size >= 1024 and unitIndex < units.length - 1, divide by 1024.
RECURSIVE scaleBytes(_, _, _, _)
scaleBytes(m, e, den, unitIndex) ==
    IF /\ unitIndex < Len(units) - 1
       /\ IF e >= 1 THEN m >= 1 ELSE m \div den >= 1024
    THEN IF e >= 1
         THEN scaleBytes(m, e - 1, den, unitIndex + 1)
         ELSE scaleBytes(m, e, den * 1024, unitIndex + 1)
    ELSE [m |-> m, e |-> e, den |-> den, unitIndex |-> unitIndex]

\* 1024^e.
RECURSIVE pow1024(_)
pow1024(e) == IF e = 0 THEN 1 ELSE 1024 * pow1024(e - 1)

\* formatBytes(bytes) (lines 16-27) for bytes = b.m * 1024^b.e: the text
\* `${size.toFixed(2)} ${units[unitIndex]}`, as the number of hundredths
\* printed and the unit.
formatBytes(b) ==
    LET r == scaleBytes(b.m, b.e, 1, 0)
    IN  [value100 |-> toFixed(r.m * pow1024(r.e), r.den, 100),
         unit |-> units[r.unitIndex + 1]]

\* formatUptime(seconds) (lines 29-36) for seconds = h / 2 (os.uptime() has
\* a fractional part): the text `${days}d ${hours}h ${minutes}m ${secs}s` as
\* its four numbers.
formatUptimeHoursOfTotal(h) ==
    [days |-> h \div (2 * 3600 * 24),
     hours |-> h \div (2 * 3600),
     minutes |-> (h % (2 * 3600)) \div (2 * 60),
     secs |-> (h % (2 * 60)) \div 2]
formatUptime(h) ==
    [days |-> h \div (2 * 3600 * 24),
     hours |-> (h % (2 * 3600 * 24)) \div (2 * 3600),
     minutes |-> (h % (2 * 3600)) \div (2 * 60),
     secs |-> (h % (2 * 60)) \div 2]

\* ---- the samplers (lines 38-51, 81-107) ----

\* The loop body of getPrivateIP (lines 44-46) over the addresses of one
\* interface, from the j-th on: an IPv4 address that is not internal
\* replaces the one held.
RECURSIVE eachAddress(_, _, _)
eachAddressKeepsFirst(list, j, privateIP) ==
    IF j > Len(list) THEN privateIP
    ELSE eachAddress(list, j + 1,
                     IF /\ list[j].family = "IPv4" /\ ~list[j].internal
                        /\ privateIP = "Not found"
                     THEN list[j].address ELSE privateIP)
eachAddress(list, j, privateIP) ==
    IF j > Len(list) THEN privateIP
    ELSE eachAddress(list, j + 1,
                     IF list[j].family = "IPv4" /\ ~list[j].internal
                     THEN list[j].address ELSE privateIP)

\* Object.keys(interfaces).forEach (lines 42-48), from the i-th key on.
RECURSIVE eachInterface(_, _, _)
eachInterface(interfaces, i, privateIP) ==
    IF i > Len(interfaces) THEN privateIP
    ELSE eachInterface(interfaces, i + 1,
                       eachAddress(interfaces[i], 1, privateIP))

\* getPrivateIP() (lines 38-51) on the interfaces os.networkInterfaces()
\* reports, in key order.
getPrivateIP(interfaces) == eachInterface(interfaces, 1, "Not found")

\* toFixed(f) of a value computed in floating point as num / den * 100 or
\* the like: the nearest number in units of 10^-f; when the exact quotient
\* lies halfway between two, the rounding of the division decides which.
toFixedTruncated(num, den, scale) == {(num * scale) \div den}
toFixedFloat(num, den, scale) ==
    LET lo == (num * scale) \div den
        rest == 2 * ((num * scale) % den)
    IN  IF rest < den THEN {lo}
        ELSE IF rest > den THEN {lo + 1}
        ELSE {lo, lo + 1}

\* Object.values(cpu.times).reduce (line 85): the sum of all counters.
cpuTotal(times) ==
    times.user + times.nice + times.sys + times.idle + times.irq

\* The record getCPUInfo builds for one core (lines 85-105), percentages in
\* tenths as printed by toFixed(1): every record the arithmetic can yield.
coreInfo(cpu, index) ==
    LET total == cpuTotal(cpu)
    IN  {[core |-> index + 1,
          user |-> u, system |-> s, idle |-> i,
          rawTotal |-> total, rawUser |-> cpu.user, rawSystem |-> cpu.sys,
          rawIdle |-> cpu.idle] :
            u \in toFixedFloat(cpu.user * 100, total, 10),
            s \in toFixedFloat(cpu.sys * 100, total, 10),
            i \in toFixedFloat(cpu.idle * 100, total, 10)}

\* getCPUInfo() (lines 81-107) on the cores os.cpus() reports: cpus.map,
\* every list of records it can yield.
getCPUInfo(cpus) ==
    {r \in [1..Len(cpus) -> UNION {coreInfo(cpus[k], k - 1) :
                                       k \in 1..Len(cpus)}] :
        \A k \in 1..Len(cpus) : r[k] \in coreInfo(cpus[k], k - 1)}

\* ---- memory, disk and the snapshot (lines 53-80, 109-151) ----

\* A byte count below 2^31 as formatBytes takes it.
Bytes(n) == [m |-> n, e |-> 0]

\* A percentage as printed: the number in units of 10^-digits, then '%'.
Percent(n, digits) == [n |-> n, digits |-> digits]

\* getMemoryInfo() (lines 109-126) on os.totalmem() and os.freemem():
\* every record the arithmetic can yield.
getMemoryInfoUsedIsTotal(total, free) ==
    {[total |-> formatBytes(Bytes(total)),
      free |-> formatBytes(Bytes(free)),
      used |-> formatBytes(Bytes(total)),
      usedPercentage |-> Percent(100 * 100, 2),
      freePercentage |-> Percent(f, 2),
      totalRaw |-> total, freeRaw |-> free, usedRaw |-> total] :
        f \in toFixedFloat(free * 100, total, 100)}
getMemoryInfo(total, free) ==
    LET used == total - free
    IN  {[total |-> formatBytes(Bytes(total)),
          free |-> formatBytes(Bytes(free)),
          used |-> formatBytes(Bytes(used)),
          usedPercentage |-> Percent(u, 2),
          freePercentage |-> Percent(f, 2),
          totalRaw |-> total, freeRaw |-> free, usedRaw |-> used] :
            u \in toFixedFloat(used * 100, total, 100),
            f \in toFixedFloat(free * 100, total, 100)}

\* The text 'N/A' in the place of a formatted size (lines 70-72).
NotAvailable == [value100 |-> 0, unit |-> "N/A"]

\* The record of the catch block of getDiskInfo (lines 69-78).
DiskSentinel ==
    [total |-> NotAvailable, free |-> NotAvailable, used |-> NotAvailable,
     usedPercentage |-> Percent(0, 0), freePercentage |-> Percent(0, 0),
     totalRaw |-> 0, freeRaw |-> 0, usedRaw |-> 0]

\* The catch block of getDiskInfo (lines 67-79): the error is logged and the
\* sentinel record is returned; nothing is thrown.
diskCatchRethrows == [threw |-> TRUE, val |-> DiskSentinel]
diskCatch == [threw |-> FALSE, val |-> DiskSentinel]

\* getDiskInfo() (lines 53-80) on the outcome of disk.check('/'): every
\* result the arithmetic can yield.
getDiskInfo(check) ==
    IF ~check.ok THEN {diskCatch}
    ELSE LET used == check.total - check.free
         IN  {[threw |-> FALSE,
               val |-> [total |-> formatBytes(Bytes(check.total)),
                        free |-> formatBytes(Bytes(check.free)),
                        used |-> formatBytes(Bytes(used)),
                        usedPercentage |-> Percent(u, 2),
                        freePercentage |-> Percent(f, 2),
                        totalRaw |-> check.total, freeRaw |-> check.free,
                        usedRaw |-> used]] :
                 u \in toFixedFloat(used * 100, check.total, 100),
                 f \in toFixedFloat(check.free * 100, check.total, 100)}

\* getSystemInfo() (lines 128-151) on the state of the host: every outcome
\* it can have, a snapshot or the rejection of the awaited getDiskInfo().
getSystemInfo(host) ==
    {IF diskInfo.threw
     THEN [st |-> "threw"]
     ELSE [st |-> "done",
           val |-> [os |-> host.os,
                    cpu |-> cpuInfo,
                    memory |-> memInfo,
                    disk |-> diskInfo.val,
                    network |-> [privateIP |-> getPrivateIP(host.interfaces),
                                 hostname |-> host.os.hostname,
                                 interfaces |-> host.interfaces],
                    uptime |-> formatUptime(host.uptime)]] :
        cpuInfo \in getCPUInfo(host.cpus),
        memInfo \in getMemoryInfo(host.totalmem, host.freemem),
        diskInfo \in getDiskInfo(host.disk)}

\* ---- calls of the pure functions ----

\* Byte counts m * 1024^e: zero, small m at every magnitude up to 1024 TB
\* and beyond, and the m around the unit boundaries.
ByteInputs ==
    {[m |-> 0, e |-> 0]}
    \cup {[m |-> m, e |-> e] : m \in 1..MaxMantissa, e \in 0..5}
    \cup {[m |-> m, e |-> e] :
            m \in {512, 1023, 1024, 1025, 1536, 1048064, 1048570, 1048571,
                   1048575, 1048576},
            e \in 0..3}

\* Uptimes in half seconds: every second up to MaxUptime and the seconds
\* around the minute, hour and day boundaries.
UptimeInputs ==
    {2 * x + f :
        x \in (0..MaxUptime) \cup {3599, 3600, 3661, 86399, 86400, 90061,
                                   172799, 172800, 8726399},
        f \in {0, 1}}

\* The address of the j-th entry of the i-th interface.
AddressTable ==
    <<<<"10.0.0.1", "10.0.0.2", "10.0.0.3">>,
      <<"10.0.1.1", "10.0.1.2", "10.0.1.3">>,
      <<"10.0.2.1", "10.0.2.2", "10.0.2.3">>>>

\* What os.networkInterfaces() can report: up to MaxIfaces interfaces of up
\* to MaxAddrs addresses, MaxEntries at most in all, each IPv4 or IPv6,
\* internal or not.
AddressKinds ==
    {[family |-> f, internal |-> n] :
        f \in {"IPv4", "IPv6"}, n \in BOOLEAN}

InterfaceShapes == UNION {[1..n -> AddressKinds] : n \in 1..MaxAddrs}

networkInterfaces(shapes) ==
    [i \in 1..Len(shapes) |->
        [j \in 1..Len(shapes[i]) |->
            [family |-> shapes[i][j].family,
             internal |-> shapes[i][j].internal,
             address |-> AddressTable[i][j]]]]

RECURSIVE Entries(_)
Entries(shapes) ==
    IF shapes = <<>> THEN 0 ELSE Len(Head(shapes)) + Entries(Tail(shapes))

InterfaceInputs ==
    {networkInterfaces(sh) :
        sh \in {x \in UNION {[1..k -> InterfaceShapes] : k \in 0..MaxIfaces} :
                  Entries(x) <= MaxEntries}}

\* What os.cpus() can report for one core: small counters with a positive
\* sum, and some large ones.
ExampleTimes ==
    [user |-> 200, nice |-> 0, sys |-> 100, idle |-> 700, irq |-> 0]

CpuTimes ==
    {c \in [user : 0..MaxCounter, nice : {0, 1}, sys : 0..MaxCounter,
            idle : 0..MaxCounter, irq : {0, 1}] : cpuTotal(c) > 0}
    \cup {ExampleTimes,
          [user |-> 1, nice |-> 0, sys |-> 1, idle |-> 1998, irq |-> 0],
          [user |-> 1, nice |-> 0, sys |-> 2, idle |-> 4, irq |-> 0],
          [user |-> 123457, nice |-> 0, sys |-> 54321, idle |-> 987655,
           irq |-> 0],
          [user |-> 200, nice |-> 50, sys |-> 100, idle |-> 700,
           irq |-> 50]}

\* One core, or two with the second one fixed.
CpuInputs ==
    {<<c>> : c \in CpuTimes} \cup {<<c, ExampleTimes>> : c \in CpuTimes}

\* What os.totalmem() and os.freemem(), or disk.check, can report: small
\* sizes with 0 <= free <= total and total > 0, and some large ones.
UsageInputs ==
    {u \in [total : 1..MaxUnits, free : 0..MaxUnits] : u.free <= u.total}
    \cup {[total |-> 800, free |-> 1], [total |-> 800, free |-> 799],
          [total |-> 16384, free |-> 4096],
          [total |-> 20000, free |-> 6667]}

\* The outcome of disk.check('/'): it fails, or it reports a usage.
DiskInputs ==
    {[ok |-> FALSE, total |-> 0, free |-> 0]}
    \cup {[ok |-> TRUE, total |-> u.total, free |-> u.free] :
            u \in UsageInputs}

\* Host states a snapshot is taken of.
HostInputs ==
    [os : {[platform |-> "linux", type |-> "Linux", release |-> "6.1",
            arch |-> "x64", hostname |-> "host"]},
     cpus : {<<ExampleTimes>>,
             <<[user |-> 1, nice |-> 0, sys |-> 1, idle |-> 1998,
                irq |-> 0], ExampleTimes>>},
     totalmem : {800},
     freemem : {1, 300},
     disk : {d \in DiskInputs : ~d.ok \/ d.total \in {3, 800}},
     interfaces : {n \in InterfaceInputs : Len(n) = 1},
     uptime : {2 * 90061 + 1, 119}]

NoCall == [fn |-> "none"]

InitNoCall == fnIn = NoCall /\ fnOut = NoCall

Pending == [st |-> "pending"]

Done(v) == [st |-> "done", val |-> v]

\* A call is about to be made: the function and its argument.
FnInputs ==
    {[fn |-> "formatBytes", arg |-> b] : b \in ByteInputs}
    \cup {[fn |-> "formatUptime", arg |-> h] : h \in UptimeInputs}
    \cup {[fn |-> "getPrivateIP", arg |-> n] : n \in InterfaceInputs}
    \cup {[fn |-> "getCPUInfo", arg |-> c] : c \in CpuInputs}
    \cup {[fn |-> "getMemoryInfo", arg |-> u] : u \in UsageInputs}
    \cup {[fn |-> "getDiskInfo", arg |-> d] : d \in DiskInputs}
    \cup {[fn |-> "getSystemInfo", arg |-> h] : h \in HostInputs}

InitCall == fnIn \in FnInputs /\ fnOut = Pending

CallFormatBytes ==
    /\ fnIn.fn = "formatBytes" /\ fnOut = Pending
    /\ fnOut' = Done(formatBytes(fnIn.arg))
    /\ UNCHANGED <<sessionVars, cmds, server, fnIn>>

CallFormatUptime ==
    /\ fnIn.fn = "formatUptime" /\ fnOut = Pending
    /\ fnOut' = Done(formatUptime(fnIn.arg))
    /\ UNCHANGED <<sessionVars, cmds, server, fnIn>>

\* ---- specifications ----

Init == InitSessions /\ InitControl /\ InitServer /\ InitNoCall

\* One step of session s.
SessionStep(s) ==
    \/ Connect(s)
    \/ InitialResume(s)
    \/ Tick(s)
    \/ \E n \in 1..MaxTicks : TickResume(s, n)
    \/ BeginClose(s)
    \/ ErrorEvent(s)
    \/ CloseEvent(s)

\* The observer sessions on their own: no control request, no signal.
Next ==
    /\ \E s \in Sessions : SessionStep(s)
    /\ UNCHANGED <<cmds, server, fnIn, fnOut>>

Spec == Init /\ [][Next]_vars

\* The control endpoints next to an observer session.  A callback of a
\* session runs only when the event loop is free.
ControlSessions == {1}

TelemetryStep(s) ==
    /\ ~execBlocksLoop(cmds)
    /\ SessionStep(s)
    /\ UNCHANGED <<cmds, server, fnIn, fnOut>>

ControlNext ==
    \/ \E s \in ControlSessions : TelemetryStep(s)
    \/ \E r \in Requests, k \in Kinds : PostControl(r, k)
    \/ \E r \in Requests, o \in ExecOutcomes : ExecDone(r, o)

ControlSpec == Init /\ [][ControlNext]_vars

CallGetPrivateIP ==
    /\ fnIn.fn = "getPrivateIP" /\ fnOut = Pending
    /\ fnOut' = Done(getPrivateIP(fnIn.arg))
    /\ UNCHANGED <<sessionVars, cmds, server, fnIn>>

CallGetCPUInfo ==
    /\ fnIn.fn = "getCPUInfo" /\ fnOut = Pending
    /\ \E v \in getCPUInfo(fnIn.arg) : fnOut' = Done(v)
    /\ UNCHANGED <<sessionVars, cmds, server, fnIn>>

CallGetMemoryInfo ==
    /\ fnIn.fn = "getMemoryInfo" /\ fnOut = Pending
    /\ \E v \in getMemoryInfo(fnIn.arg.total, fnIn.arg.free) :
         fnOut' = Done(v)
    /\ UNCHANGED <<sessionVars, cmds, server, fnIn>>

CallGetDiskInfo ==
    /\ fnIn.fn = "getDiskInfo" /\ fnOut = Pending
    /\ \E d \in getDiskInfo(fnIn.arg) :
         fnOut' = IF d.threw THEN [st |-> "threw"] ELSE Done(d.val)
    /\ UNCHANGED <<sessionVars, cmds, server, fnIn>>

CallGetSystemInfo ==
    /\ fnIn.fn = "getSystemInfo" /\ fnOut = Pending
    /\ fnOut' \in getSystemInfo(fnIn.arg)
    /\ UNCHANGED <<sessionVars, cmds, server, fnIn>>

\* The pure functions, each called once on an argument drawn at the start.
FnInit == InitSessions /\ InitControl /\ InitServer /\ InitCall

FnNext ==
    \/ CallFormatBytes
    \/ CallFormatUptime
    \/ CallGetPrivateIP
    \/ CallGetCPUInfo
    \/ CallGetMemoryInfo
    \/ CallGetDiskInfo
    \/ CallGetSystemInfo

FnSpec == FnInit /\ [][FnNext]_vars

\* The signal handlers next to the observer sessions.  Connections are
\* accepted while the server listens; nothing runs once the process exited.
\* A channel ends here by its closing handshake and its 'close' event, which
\* is what the server's close waits for.
LiveStep(s) ==
    /\ server # "exited"
    /\ \/ server = "listening" /\ Connect(s)
       \/ InitialResume(s)
       \/ Tick(s)
       \/ \E n \in 1..MaxTicks : TickResume(s, n)
       \/ BeginClose(s)
       \/ CloseEvent(s)
    /\ UNCHANGED <<cmds, server, fnIn, fnOut>>

SignalNext ==
    \/ \E s \in Sessions : LiveStep(s)
    \/ Signal
    \/ ServerClosed

SignalSpec == Init /\ [][SignalNext]_vars

TypeOK ==
    /\ pc \in [Sessions -> {"idle", "initial", "running"}]
    /\ readyState \in [Sessions -> {"NONE", "OPEN", "CLOSING", "CLOSED"}]
    /\ timer \in [Sessions -> {"none", "armed", "cleared"}]
    /\ ticks \in [Sessions -> 0..MaxTicks]
    /\ \A s \in Sessions : inflight[s] \subseteq 1..MaxTicks
    /\ \A s \in Sessions : Len(sent[s]) <= MaxTicks + 1
    /\ detachCalls \in [Sessions -> 0..2]
    /\ freed \in [Sessions -> Nat]
    /\ uncaught \in [Sessions -> Nat]

\* ---- properties of the observer sessions ----

\* Positions in the send log of session s that come from source n
\* (0 = the initial delivery, k > 0 = the k-th tick).
SendsOf(s, n) == {i \in DOMAIN sent[s] : sent[s][i].src = n}

\* Everything the program keeps for session s.
SessionState(s) ==
    <<pc[s], readyState[s], timer[s], ticks[s], inflight[s], sent[s],
      detachCalls[s], freed[s], uncaught[s]>>

C2_NoSendAfterDetach ==
    \A s \in Sessions : \A i \in DOMAIN sent[s] : ~sent[s][i].det

\* C3 as stated: a session whose channel has closed has no armed timer.
C3_NoLeakedTimer ==
    \A s \in Sessions : readyState[s] = "CLOSED" => timer[s] # "armed"

\* C4 as stated: a session never has two sample-and-send operations in
\* progress at once (the pending initial delivery counts as one).
C4_SingleFlight ==
    \A s \in Sessions :
        Cardinality(inflight[s]) + (IF pc[s] = "initial" THEN 1 ELSE 0) <= 1

\* C5 as stated: within a session, snapshots are sent in the order in which
\* their sampling was started (initial first, then tick 1, tick 2, ...).
C5_SentInSamplingOrder ==
    \A s \in Sessions :
        \A i, j \in DOMAIN sent[s] :
            i < j => sent[s][i].src < sent[s][j].src

\* C6: a run of the 'close' or 'error' handler on a session that has already
\* been detached raises nothing, releases no timer again and leaves the
\* session's timer, ticks, pending samples and sends as they were.
C6_DetachIdempotent ==
    [][\A s \in Sessions :
          (detachCalls[s] >= 1 /\ detachCalls'[s] = detachCalls[s] + 1) =>
              /\ timer'[s] = timer[s]
              /\ timer'[s] = "cleared"
              /\ freed'[s] = freed[s]
              /\ uncaught'[s] = uncaught[s]
              /\ pc'[s] = pc[s]
              /\ ticks'[s] = ticks[s]
              /\ inflight'[s] = inflight[s]
              /\ sent'[s] = sent[s]]_vars

\* C6 witness: both detach triggers have run on one session and its timer
\* was released once.
C6_Witness ==
    \E s \in Sessions :
        detachCalls[s] >= 2 /\ freed[s] = 1 /\ timer[s] = "cleared"

C8_SendFailureCloses ==
    \A s \in Sessions :
        (\E i \in DOMAIN sent[s] : sent[s][i].res = "failed") =>
            /\ timer[s] = "cleared"
            /\ readyState[s] \in {"CLOSING", "CLOSED"}

\* C9: when the awaited part of a tick fails (the sample rejects, or the send
\* fails), the step leaves the session's timer as it was and no error
\* leaves the callback.
C9_TickFailureSkipsTick ==
    [][\A s \in Sessions : \A n \in inflight[s] :
          (/\ n \notin inflight'[s]
           /\ \/ sent'[s] = sent[s]
              \/ sent'[s][Len(sent'[s])].res = "failed") =>
              /\ timer'[s] = timer[s]
              /\ uncaught'[s] = uncaught[s]]_vars

\* C9 witness: tick 1 of a session failed in its sample, the timer stayed
\* armed, and tick 2 fired and delivered.
C9_Witness ==
    \E s \in Sessions :
        /\ readyState[s] = "OPEN" /\ timer[s] = "armed"
        /\ ticks[s] >= 2
        /\ 1 \notin inflight[s] /\ SendsOf(s, 1) = {}
        /\ \E i \in SendsOf(s, 2) : sent[s][i].res = "delivered"

\* C10 as stated: nothing is sent on a channel that is not open: every
\* ws.send call found the channel OPEN and delivered.
C10_NoSendOnClosedChannel ==
    \A s \in Sessions :
        \A i \in DOMAIN sent[s] : sent[s][i].res = "delivered"

\* ---- properties of the control endpoints ----

\* C11: every control request runs exactly one command, the one of its
\* endpoint, and never another; it has no response while the command is
\* pending and exactly one once the command has ended: status 200 with a
\* message when it succeeded, status 500 with an error when it failed.
C11_OneCommandOneResponse ==
    \A r \in Requests :
        /\ cmds[r].st = "none" => cmds[r].execs = <<>> /\ cmds[r].resp = <<>>
        /\ cmds[r].st # "none" => cmds[r].execs = <<Command(cmds[r].kind)>>
        /\ cmds[r].st = "pending" => cmds[r].resp = <<>>
        /\ cmds[r].st = "done" =>
              /\ Len(cmds[r].resp) = 1
              /\ cmds[r].outcome = "ok" =>
                     /\ cmds[r].resp[1].status = 200
                     /\ cmds[r].resp[1].key = "message"
              /\ cmds[r].outcome # "ok" =>
                     /\ cmds[r].resp[1].status = 500
                     /\ cmds[r].resp[1].key = "error"

\* C11 witness: a restart that failed and a shutdown that succeeded have
\* both been answered.
C11_Witness ==
    \E r, q \in Requests :
        /\ cmds[r].st = "done" /\ cmds[r].kind = "restart"
        /\ cmds[r].outcome # "ok" /\ cmds[r].resp[1].status = 500
        /\ cmds[q].st = "done" /\ cmds[q].kind = "shutdown"
        /\ cmds[q].outcome = "ok" /\ cmds[q].resp[1].status = 200

\* C12 as stated: two requests whose commands failed for different causes
\* get different error responses.
C12_ErrorCarriesCause ==
    \A r, q \in Requests :
        (/\ cmds[r].st = "done" /\ cmds[q].st = "done"
         /\ cmds[r].outcome # "ok" /\ cmds[q].outcome # "ok"
         /\ cmds[r].outcome # cmds[q].outcome) =>
            cmds[r].resp # cmds[q].resp

\* A tick of session s, or the rest of one, as the event loop runs it next
\* to the control endpoints.
TelemetryTick(s) ==
    /\ ~execBlocksLoop(cmds)
    /\ Tick(s) \/ \E n \in 1..MaxTicks : TickResume(s, n)

\* C13: while a control command is pending, a session whose timer is armed
\* can fire its next tick and a tick that awaits its sample can deliver; and
\* a step that issues or completes a control request changes nothing of
\* any session.
C13_ControlIsolatedFromTelemetry ==
    /\ [](\A s \in ControlSessions :
            (/\ \E r \in Requests : cmds[r].st = "pending"
             /\ \/ timer[s] = "armed" /\ ticks[s] < MaxTicks
                \/ inflight[s] # {}) =>
                ENABLED TelemetryTick(s))
    /\ [][cmds' # cmds => UNCHANGED sessionVars]_vars

\* C13 witness: a command is still pending while the session, open and
\* armed, has been delivered the snapshot of a tick and awaits another.
C13_Witness ==
    \E r \in Requests, s \in ControlSessions :
        /\ cmds[r].st = "pending"
        /\ readyState[s] = "OPEN" /\ timer[s] = "armed"
        /\ inflight[s] # {}
        /\ \E i \in DOMAIN sent[s] :
               sent[s][i].src > 0 /\ sent[s][i].res = "delivered"

\* ---- properties of the signal handlers ----

\* A callback of session s as the process runs it while it has not exited.
LiveTick(s) ==
    /\ server # "exited"
    /\ Tick(s) \/ \E n \in 1..MaxTicks : TickResume(s, n)

\* C20: the process has exited only when every observer channel has closed;
\* after the signal a session whose timer is armed can still fire its tick
\* and deliver; and the steps of the signal handler and of the exit change
\* no timer and no channel.
C20_ExitWaitsForObservers ==
    /\ [](server = "exited" =>
            \A s \in Sessions : readyState[s] \in {"NONE", "CLOSED"})
    /\ [](\A s \in Sessions :
            (/\ server = "closing"
             /\ \/ timer[s] = "armed" /\ ticks[s] < MaxTicks
                \/ inflight[s] # {}) =>
                ENABLED LiveTick(s))
    /\ [][server' # server => UNCHANGED sessionVars]_vars

\* C20 witness: after the signal one observer has disconnected, the other is
\* still attached, armed and has been delivered a tick, and the process has
\* not exited.
C20_Witness ==
    \E s, x \in Sessions :
        /\ server = "closing"
        /\ readyState[x] = "CLOSED" /\ pc[x] = "running"
        /\ readyState[s] = "OPEN" /\ timer[s] = "armed"
        /\ \E i \in DOMAIN sent[s] :
               sent[s][i].src > 0 /\ sent[s][i].res = "delivered"

\* ---- properties of the utility functions ----

\* The call of function f has returned.
Returned(f) == fnIn.fn = f /\ fnOut.st = "done"

\* C17 as stated: formatBytes returns a unit of B..TB, a printed value below
\* 1024 unless the unit is TB, and value * 1024^unit within 1% of the byte
\* count (with num / den the byte count in the returned unit:
\* |value100 * den - 100 * num| <= num); formatBytes(1073741824) is 1.00 GB.
C17_FormatBytesBelow1024 ==
    Returned("formatBytes") =>
        LET b == fnIn.arg
            r == scaleBytes(b.m, b.e, 1, 0)
            num == r.m * pow1024(r.e)
            d == fnOut.val.value100 * r.den - 100 * num
        IN  /\ fnOut.val.unit \in {"B", "KB", "MB", "GB", "TB"}
            /\ fnOut.val.value100 < 102400 \/ fnOut.val.unit = "TB"
            /\ d <= num /\ -d <= num
            /\ b = [m |-> 1024, e |-> 2] =>
                   fnOut.val = [value100 |-> 100, unit |-> "GB"]

\* C18: formatUptime yields hours below 24, minutes and seconds below 60,
\* none negative, and days, hours, minutes and seconds that add up to the
\* whole seconds of the uptime; formatUptime(90061) is 1d 1h 1m 1s.
C18_FormatUptimeDecomposes ==
    Returned("formatUptime") =>
        LET v == fnOut.val
        IN  /\ v.days >= 0
            /\ v.hours \in 0..23
            /\ v.minutes \in 0..59
            /\ v.secs \in 0..59
            /\ v.days * 86400 + v.hours * 3600 + v.minutes * 60 + v.secs
                   = fnIn.arg \div 2
            /\ fnIn.arg = 2 * 90061 =>
                   v = [days |-> 1, hours |-> 1, minutes |-> 1, secs |-> 1]

\* C18 witness: formatUptime(90061.5) has returned 1d 1h 1m 1s.
C18_Witness ==
    /\ Returned("formatUptime")
    /\ fnIn.arg = 2 * 90061 + 1
    /\ fnOut.val = [days |-> 1, hours |-> 1, minutes |-> 1, secs |-> 1]

\* ---- properties of the samplers ----

\* The addresses of the interfaces in enumeration order: interfaces in key
\* order, the addresses of each in list order.
RECURSIVE Enumerated(_)
Enumerated(interfaces) ==
    IF interfaces = <<>> THEN <<>>
    ELSE interfaces[1] \o Enumerated(Tail(interfaces))

\* C19: getPrivateIP returns the address of the last entry in enumeration
\* order that is IPv4 and not internal, and 'Not found' when there is none.
C19_LastExternalIPv4 ==
    Returned("getPrivateIP") =>
        LET all == Enumerated(fnIn.arg)
            hits == {k \in DOMAIN all :
                        all[k].family = "IPv4" /\ ~all[k].internal}
        IN  IF hits = {} THEN fnOut.val = "Not found"
            ELSE \E k \in hits :
                    /\ \A h \in hits : h <= k
                    /\ fnOut.val = all[k].address

\* C19 witness: two interfaces, an external IPv4 address on the first and,
\* after an internal one, another on the second, which is the one returned.
C19_Witness ==
    /\ Returned("getPrivateIP")
    /\ Len(fnIn.arg) = 2
    /\ fnIn.arg[1][1].family = "IPv4" /\ ~fnIn.arg[1][1].internal
    /\ Len(fnIn.arg[2]) = 2
    /\ fnIn.arg[2][1].internal
    /\ fnIn.arg[2][2].family = "IPv4" /\ ~fnIn.arg[2][2].internal
    /\ fnOut.val = fnIn.arg[2][2].address

\* C16: for a core whose counters are user, system and idle only, with a
\* positive sum, each reported percentage is counter / total * 100 rounded to
\* one decimal (within 0.05 of it) and the three add up to 100.0 within 0.1;
\* total 1000 with idle 700, user 200, sys 100 gives 20.0, 10.0, 70.0.
C16_CpuPercentages ==
    Returned("getCPUInfo") =>
        \A k \in DOMAIN fnIn.arg :
            LET c == fnIn.arg[k]
                v == fnOut.val[k]
                total == cpuTotal(c)
                Near(p, counter) ==
                    /\ 2 * (p * total - 1000 * counter) <= total
                    /\ 2 * (1000 * counter - p * total) <= total
            IN  (c.nice = 0 /\ c.irq = 0 /\ total > 0) =>
                    /\ Near(v.user, c.user)
                    /\ Near(v.system, c.sys)
                    /\ Near(v.idle, c.idle)
                    /\ v.user + v.system + v.idle \in 999..1001
                    /\ c = ExampleTimes =>
                           v.user = 200 /\ v.system = 100 /\ v.idle = 700

\* C16 witness: a core with user 1, sys 2 and idle 4 of 7 has been reported
\* as 14.3%, 28.6% and 57.1%.
C16_Witness ==
    /\ Returned("getCPUInfo")
    /\ fnIn.arg[1] =
           [user |-> 1, nice |-> 0, sys |-> 2, idle |-> 4, irq |-> 0]
    /\ fnOut.val[1].user = 143
    /\ fnOut.val[1].system = 286
    /\ fnOut.val[1].idle = 571

\* A usage record has consistent raw values: used + free = total, used >= 0.
RawConsistent(v) == v.usedRaw + v.freeRaw = v.totalRaw /\ v.usedRaw >= 0

\* The used and free percentages of a usage record add up to 100.00 within
\* 0.01 (both printed with two decimals).
PercentagesAddUp(v) ==
    /\ v.usedPercentage.digits = 2 /\ v.freePercentage.digits = 2
    /\ v.usedPercentage.n + v.freePercentage.n \in 9999..10001

\* C14: when disk.check fails, getSystemInfo still returns a snapshot: its
\* disk record is the sentinel record and its os, cpu, memory, network and
\* uptime fields are what the samplers yield for the host.
C14_DiskFailureDegradesDiskOnly ==
    (fnIn.fn = "getSystemInfo" /\ fnOut # Pending /\ ~fnIn.arg.disk.ok) =>
        /\ fnOut.st = "done"
        /\ fnOut.val.disk = DiskSentinel
        /\ fnOut.val.disk.total.unit = "N/A"
        /\ fnOut.val.disk.usedPercentage = Percent(0, 0)
        /\ fnOut.val.disk.totalRaw = 0
        /\ fnOut.val.os = fnIn.arg.os
        /\ fnOut.val.cpu \in getCPUInfo(fnIn.arg.cpus)
        /\ fnOut.val.memory
               \in getMemoryInfo(fnIn.arg.totalmem, fnIn.arg.freemem)
        /\ fnOut.val.network.privateIP = getPrivateIP(fnIn.arg.interfaces)
        /\ fnOut.val.network.interfaces = fnIn.arg.interfaces
        /\ fnOut.val.uptime = formatUptime(fnIn.arg.uptime)

\* C14 witness: a snapshot of a host whose disk check failed, with two
\* cores, an external IPv4 address and an uptime of 1d 1h 1m 1s.
C14_Witness ==
    /\ Returned("getSystemInfo")
    /\ ~fnIn.arg.disk.ok
    /\ fnOut.val.disk = DiskSentinel
    /\ Len(fnOut.val.cpu) = 2
    /\ fnOut.val.network.privateIP = "10.0.0.1"
    /\ fnOut.val.uptime.days = 1

\* C15 as stated: every memory and disk record, the degraded disk record
\* included, has used + free = total raw, used >= 0, and percentages that
\* add up to 100.00 within 0.01.
C15_EveryUsageRecordAddsUp ==
    (Returned("getMemoryInfo") \/ Returned("getDiskInfo")) =>
        RawConsistent(fnOut.val) /\ PercentagesAddUp(fnOut.val)

\* C15 amended: every memory record, and every disk record of a disk check
\* that succeeded, has used + free = total raw, used >= 0 and percentages
\* that add up to 100.00 within 0.01; the degraded disk record has raw
\* values 0 = 0 + 0 and both percentages '0%'.
C15_UsageRecordsAddUp ==
    /\ (Returned("getMemoryInfo")
        \/ (Returned("getDiskInfo") /\ fnIn.arg.ok)) =>
           RawConsistent(fnOut.val) /\ PercentagesAddUp(fnOut.val)
    /\ (Returned("getDiskInfo") /\ ~fnIn.arg.ok) =>
           /\ RawConsistent(fnOut.val)
           /\ fnOut.val.usedPercentage = Percent(0, 0)
           /\ fnOut.val.freePercentage = Percent(0, 0)

\* C15 witness: memory with 1 of 800 free, reported as 99.88% used and
\* 0.13% free.
C15_Witness ==
    /\ Returned("getMemoryInfo")
    /\ fnIn.arg = [total |-> 800, free |-> 1]
    /\ fnOut.val.usedPercentage.n = 9988
    /\ fnOut.val.freePercentage.n = 13
    /\ fnOut.val.usedRaw = 799
====
